---- MODULE Spec2Model ----
(***************************************************************************)
(* Model of two independent flows of the repository:                       *)
(*   - the schema upgrade upgrade_5_to_6 (dataset/sqlite/db_upgrades),     *)
(*   - the Keysight B1520A capacitance-measurement-unit driver.            *)
(* The flows share no state; each has its own specification.               *)
(***************************************************************************)
EXTENDS Integers, Sequences, FiniteSets, TLC

\* ------------------------------------------------------------------------
\* Bounds
\* ------------------------------------------------------------------------
MaxRuns == 2        \* largest number of run rows in an initial store
MaxCalls == 2       \* number of upgrade_5_to_6 calls in one behaviour

VARIABLES
  \* --- schema upgrade -----------------------------------------------------
  db,            \* committed (persisted) runs table: run_id -> row
  conn,          \* the connection's view of the runs table (uncommitted writes)
  upc,           \* position of upgrade_5_to_6: idle, loop, returned, raised
  no_of_runs,    \* local of upgrade_5_to_6
  run_id,        \* loop variable of upgrade_5_to_6
  pre,           \* history: db when the current call started
  prev_ok,       \* history: <<db>> after the previous successful call, else <<>>
  on_upgraded,   \* history: the current call started on an already upgraded store
  n_reads,       \* history: get_run_description calls of the current call
  n_writes,      \* history: update_run_description calls of the current call
  error,         \* what made the current call raise: none, storage, document, type
  calls,         \* number of calls started
  \* --- B1520A module ------------------------------------------------------
  setup_fnc_already_run,            \* B1520A.setup_fnc_already_run
  sweep_auto_abort,                 \* CVSweep._sweep_auto_abort
  post_sweep_voltage_cond,          \* CVSweep._post_sweep_voltage_cond
  ranging_mode,                     \* B1520A._ranging_mode
  measurement_range_for_non_auto,   \* B1520A._measurement_range_for_non_auto
  sweep_steps_attr,                 \* B1520A._sweep_steps
  cache,         \* parameter name -> cached value (None when never set)
  timeout,       \* root_instrument.timeout
  sent,          \* commands the latest operation put on the link, in order
  last_op,       \* the latest operation: [name, arg, val]
  outcome,       \* how the latest operation ended: [status, value, received]
  err_reply,     \* reply to the latest error_message() query
  ops,           \* number of operations so far
  \* --- parse_sweep_data ---------------------------------------------------
  raw_data,      \* argument of parse_sweep_data: a string, as characters
  sweep_result   \* its result once computed: [done, status, param1, param2]

upgradeVars == <<db, conn, upc, no_of_runs, run_id, pre, prev_ok, on_upgraded,
                 n_reads, n_writes, error, calls>>

moduleVars == <<setup_fnc_already_run, sweep_auto_abort,
                post_sweep_voltage_cond, ranging_mode,
                measurement_range_for_non_auto, sweep_steps_attr, cache,
                timeout>>

cmuVars == <<setup_fnc_already_run, sweep_auto_abort,
             post_sweep_voltage_cond, ranging_mode,
             measurement_range_for_non_auto, sweep_steps_attr, cache,
             timeout, sent, last_op, outcome, err_reply, ops>>

parseVars == <<raw_data, sweep_result>>

vars == <<db, conn, upc, no_of_runs, run_id, pre, prev_ok, on_upgraded,
          n_reads, n_writes, error, calls,
          setup_fnc_already_run, sweep_auto_abort,
          post_sweep_voltage_cond, ranging_mode,
          measurement_range_for_non_auto, sweep_steps_attr, cache,
          timeout, sent, last_op, outcome, err_reply, ops,
          raw_data, sweep_result>>

\* ------------------------------------------------------------------------
\* JSON documents.  A stored description is NULL or a text; a text is either
\* not JSON at all, a JSON value that is not an object, or a JSON object
\* written as a sequence of <<key, value>> members (keys may repeat in the
\* text).  A parsed object is a python dict: a sequence of members with
\* distinct keys in insertion order.  Values are opaque JSON value texts.
\* ------------------------------------------------------------------------
NullDesc == [tag |-> "null", pairs |-> <<>>]
GarbageDesc == [tag |-> "garbage", pairs |-> <<>>]
ScalarDesc == [tag |-> "scalar", pairs |-> <<>>]
ObjectDesc(ps) == [tag |-> "object", pairs |-> ps]

DictKeys(d) == {d[i][1] : i \in 1..Len(d)}

DictHas(d, k) == k \in DictKeys(d)

DictGet(d, k) == d[CHOOSE i \in 1..Len(d) : d[i][1] = k][2]

\* d[k] = v on a python dict: an existing key keeps its position
DictSet(d, k, v) ==
  IF DictHas(d, k)
    THEN [i \in 1..Len(d) |-> IF d[i][1] = k THEN <<k, v>> ELSE d[i]]
    ELSE Append(d, <<k, v>>)

RECURSIVE DictFromPairs(_)
DictFromPairs(ps) ==
  IF ps = <<>> THEN <<>>
  ELSE LET front == DictFromPairs(SubSeq(ps, 1, Len(ps) - 1))
           m == ps[Len(ps)]
       IN DictSet(front, m[1], m[2])

\* json.loads: [ok, isdict, dict]
json_loads(json_str) ==
  CASE json_str.tag = "object" ->
         [ok |-> TRUE, isdict |-> TRUE, dict |-> DictFromPairs(json_str.pairs)]
    [] json_str.tag = "scalar" ->
         [ok |-> TRUE, isdict |-> FALSE, dict |-> <<>>]
    [] OTHER ->
         [ok |-> FALSE, isdict |-> FALSE, dict |-> <<>>]

\* json.dumps of a dict: members in the dict's order
json_dumps(d) == ObjectDesc(d)

\* a JSON value: its text and how many times it has been re-encoded as a string
JVal(text) == [text |-> text, enc |-> 0]

\* json.dumps of an already parsed value (its text quoted once more)
Reencoded(val) == [val EXCEPT !.enc = @ + 1]

\* InterDependencies().serialize()
empty_idps_ser == JVal("{paramspecs: []}")

\* the rewritten document of a non-null description whose parse is ser
new_ser_version_last(ser) ==
  DictSet(<<<<"interdependencies", DictGet(ser, "interdependencies")>>>>,
          "version", JVal("0"))

new_ser_reencoded(ser) ==
  DictSet(<<<<"version", JVal("0")>>>>,
          "interdependencies", Reencoded(DictGet(ser, "interdependencies")))

new_ser_keep_version(ser) ==
  DictSet(<<<<"version", IF DictHas(ser, "version")
                           THEN DictGet(ser, "version") ELSE JVal("0")>>>>,
          "interdependencies", DictGet(ser, "interdependencies"))

new_ser_of(ser) ==
  DictSet(<<<<"version", JVal("0")>>>>,
          "interdependencies", DictGet(ser, "interdependencies"))

\* body of the for loop up to the write: [ok, new_json]
new_json_null_fails(json_str) ==
  LET parsed == json_loads(json_str)
  IN IF parsed.ok /\ parsed.isdict /\ DictHas(parsed.dict, "interdependencies")
       THEN [ok |-> TRUE, new_json |-> json_dumps(new_ser_of(parsed.dict))]
       ELSE [ok |-> FALSE, new_json |-> json_str]

new_json_of(json_str) ==
  IF json_str = NullDesc
    THEN [ok |-> TRUE,
          new_json |-> json_dumps(<<<<"version", JVal("0")>>,
                                    <<"interdependencies", empty_idps_ser>>>>)]
    ELSE LET parsed == json_loads(json_str)
         IN IF parsed.ok /\ parsed.isdict
                /\ DictHas(parsed.dict, "interdependencies")
              THEN [ok |-> TRUE,
                    new_json |-> json_dumps(new_ser_of(parsed.dict))]
              ELSE [ok |-> FALSE, new_json |-> json_str]

\* ------------------------------------------------------------------------
\* The runs table
\* ------------------------------------------------------------------------
NoneInt == -1   \* SQL NULL / python None where an integer is expected

\* SELECT max(run_id) FROM runs
max_run_id(rows) ==
  IF DOMAIN rows = {} THEN NoneInt
  ELSE CHOOSE m \in DOMAIN rows : \A r \in DOMAIN rows : r <= m

\* no_of_runs = no_of_runs or 0
or_zero_dropped(n) == n

or_zero(n) == IF n = NoneInt \/ n = 0 THEN 0 ELSE n

get_run_description(rows, r) == rows[r].description

\* UPDATE runs SET run_description = ? WHERE run_id = ?
update_run_description(rows, r, new_json) ==
  IF r \in DOMAIN rows
    THEN [rows EXCEPT ![r].description = new_json]
    ELSE rows

\* descriptions a version-5 store may hold
DescSet ==
  { NullDesc, GarbageDesc, ScalarDesc,
    ObjectDesc(<<>>),
    ObjectDesc(<<<<"interdependencies", JVal("idpsA")>>>>),
    ObjectDesc(<<<<"interdependencies", JVal("idpsA")>>,
                 <<"version", JVal("3")>>>>),
    ObjectDesc(<<<<"version", JVal("3")>>,
                 <<"interdependencies", JVal("idpsB")>>>>),
    ObjectDesc(<<<<"extra", JVal("x")>>,
                 <<"interdependencies", JVal("idpsB")>>>>),
    ObjectDesc(<<<<"interdependencies", JVal("idpsA")>>,
                 <<"interdependencies", JVal("idpsB")>>>>) }

RowOf(r, d) == [description |-> d, guid |-> r]

\* ------------------------------------------------------------------------
\* State after construction
\* ------------------------------------------------------------------------
None == -1            \* python None in an integer-valued slot
NoError == "+0,\"No Error.\""
ErrReplies == {NoError, "+100,\"Undefined GPIB command.\""}

\* enumerators of constants.py used by the driver, by their integer values
RangingMode_AUTO == 0
RangingMode_FIXED == 2
Post_START == 1
Post_STOP == 2
Abort_DISABLED == 1

Abort_ENABLED == 2
SweepMode_LINEAR == 1
ACT_PLC == 2
IMP_Cp_D == 101
MM_SPOT_C == 17
MM_CV_DC_SWEEP == 18

phase_compensation_timeout == 60
DefaultTimeout == 3   \* the link timeout the mainframe was opened with

channel == 3          \* ChNr(slot_nr), the one entry of B1520A.channels

\* names under which B1520A.__init__ registers its submodules
Submodules == {"correction", "cv_sweep"}

SweepStepsGroup == <<"chan", "sweep_mode", "sweep_start", "sweep_end",
                     "sweep_steps">>
SweepDelaysGroup == <<"hold", "delay", "step_delay", "trigger_delay",
                      "measure_delay">>
AdcGroup == <<"adc_mode", "adc_coef">>

SeqRange(q) == {q[i] : i \in 1..Len(q)}

GroupParams == SeqRange(SweepStepsGroup) \cup SeqRange(SweepDelaysGroup)
                 \cup SeqRange(AdcGroup)

\* get_cmd=None parameters whose set_cmd writes one command
WriteOnlyParams == {"voltage_dc", "voltage_ac", "frequency",
                    "phase_compensation_mode", "measurement_mode",
                    "impedance_model", "ac_dc_volt_monitor"}

AttrParams == {"sweep_auto_abort", "post_sweep_voltage_cond", "ranging_mode",
               "measurement_range_for_non_auto"}

Params == GroupParams \cup WriteOnlyParams \cup AttrParams

\* initial_value of the parameters that declare one
InitialValue(p) ==
  CASE p \in SeqRange(SweepDelaysGroup) -> 0
    [] p = "sweep_mode" -> SweepMode_LINEAR
    [] p \in {"sweep_start", "sweep_end"} -> 0
    [] p = "sweep_steps" -> 1
    [] p = "chan" -> channel
    [] p = "adc_coef" -> 1
    [] p = "adc_mode" -> ACT_PLC
    [] p = "impedance_model" -> IMP_Cp_D
    [] p = "ac_dc_volt_monitor" -> 0
    [] OTHER -> None

NoOutcome == [status |-> "none", value |-> <<>>, received |-> <<>>]

ModuleStartWith(tmo) ==
  /\ setup_fnc_already_run = FALSE
  /\ sweep_auto_abort = 1        \* True
  /\ post_sweep_voltage_cond = Post_START
  /\ ranging_mode = RangingMode_AUTO
  /\ measurement_range_for_non_auto = None
  /\ sweep_steps_attr = 1
  /\ cache = [p \in Params |-> InitialValue(p)]
  /\ timeout = tmo
  /\ sent = <<>>
  /\ last_op = [name |-> "init", arg |-> "", val |-> None]
  /\ outcome = NoOutcome
  /\ err_reply = NoError
  /\ ops = 0

ModuleStart == ModuleStartWith(DefaultTimeout)

\* the link timeouts a caller may have set on the root instrument
Timeouts == {DefaultTimeout, 10}

NotParsed == [done |-> FALSE, status |-> "none", param1 |-> <<>>,
              param2 |-> <<>>]

ParseStart ==
  /\ raw_data = <<>>
  /\ sweep_result = NotParsed

StoreStart ==
  /\ conn = db
  /\ upc = "idle"
  /\ no_of_runs = 0
  /\ run_id = 0
  /\ pre = db
  /\ prev_ok = <<>>
  /\ on_upgraded = FALSE
  /\ n_reads = 0
  /\ n_writes = 0
  /\ error = "none"
  /\ calls = 0

\* ------------------------------------------------------------------------
\* upgrade_5_to_6
\* ------------------------------------------------------------------------
UpgradeInit ==
  /\ \E n \in 0..MaxRuns :
       \E ds \in [1..n -> DescSet] :
         db = [r \in 1..n |-> RowOf(r, ds[r])]
  /\ StoreStart
  /\ ModuleStart
  /\ ParseStart

\* the exception leaves the with block: atomic rolls back and re-raises
Rollback(kind) ==
  /\ conn' = db
  /\ db' = db
  /\ upc' = "raised"
  /\ error' = kind

\* lines 21-33: the max(run_id) query, the or, entering atomic, the range
Call ==
  /\ upc = "idle"
  /\ calls < MaxCalls
  /\ calls' = calls + 1
  /\ pre' = db
  /\ on_upgraded' = (prev_ok # <<>>)
  /\ n_reads' = 0
  /\ n_writes' = 0
  /\ run_id' = 1
  /\ UNCHANGED <<prev_ok, cmuVars, parseVars>>
  /\ \E io_ok \in BOOLEAN :
       IF ~io_ok
         THEN Rollback("storage") /\ UNCHANGED no_of_runs
         ELSE LET n == or_zero(max_run_id(db))
              IN IF n = NoneInt
                   THEN Rollback("type") /\ UNCHANGED no_of_runs
                   ELSE /\ no_of_runs' = n
                        /\ upc' = "loop"
                        /\ error' = "none"
                        /\ UNCHANGED <<db, conn>>

\* lines 34-44 with every write committed on its own
LoopStepAutocommit ==
  /\ upc = "loop"
  /\ run_id <= no_of_runs
  /\ UNCHANGED <<no_of_runs, pre, prev_ok, on_upgraded, calls, cmuVars,
                 parseVars>>
  /\ \E io \in {"ok", "read_fails", "write_fails"} :
       IF io = "read_fails"
         THEN Rollback("storage") /\ UNCHANGED <<run_id, n_reads, n_writes>>
         ELSE LET json_str == get_run_description(conn, run_id)
                  res == new_json_of(json_str)
              IN /\ n_reads' = n_reads + 1
                 /\ IF ~res.ok
                      THEN Rollback("document") /\ UNCHANGED <<run_id, n_writes>>
                      ELSE IF io = "write_fails"
                        THEN Rollback("storage") /\ UNCHANGED <<run_id, n_writes>>
                        ELSE /\ conn' = update_run_description(conn, run_id,
                                                                 res.new_json)
                             /\ db' = conn'
                             /\ n_writes' = n_writes + 1
                             /\ run_id' = run_id + 1
                             /\ UNCHANGED <<upc, error>>

\* lines 34-44: one iteration of the for loop inside the atomic block
LoopStep ==
  /\ upc = "loop"
  /\ run_id <= no_of_runs
  /\ UNCHANGED <<no_of_runs, pre, prev_ok, on_upgraded, calls, cmuVars,
                 parseVars>>
  /\ \E io \in {"ok", "read_fails", "write_fails"} :
       IF io = "read_fails"
         THEN Rollback("storage") /\ UNCHANGED <<run_id, n_reads, n_writes>>
         ELSE LET json_str == get_run_description(conn, run_id)
                  res == new_json_of(json_str)
              IN /\ n_reads' = n_reads + 1
                 /\ IF ~res.ok
                      THEN Rollback("document") /\ UNCHANGED <<run_id, n_writes>>
                      ELSE IF io = "write_fails"
                        THEN Rollback("storage") /\ UNCHANGED <<run_id, n_writes>>
                        ELSE /\ conn' = update_run_description(conn, run_id,
                                                                 res.new_json)
                             /\ n_writes' = n_writes + 1
                             /\ run_id' = run_id + 1
                             /\ UNCHANGED <<db, upc, error>>

\* the for loop is exhausted: the with block exits normally, atomic commits
Commit ==
  /\ upc = "loop"
  /\ run_id > no_of_runs
  /\ db' = conn
  /\ upc' = "returned"
  /\ UNCHANGED <<conn, no_of_runs, run_id, pre, prev_ok, on_upgraded,
                 n_reads, n_writes, error, calls, cmuVars, parseVars>>

\* the caller has seen the outcome of the call
Finish ==
  /\ upc \in {"returned", "raised"}
  /\ upc' = "idle"
  /\ prev_ok' = IF upc = "returned" THEN <<db>> ELSE prev_ok
  /\ UNCHANGED <<db, conn, no_of_runs, run_id, pre, on_upgraded,
                 n_reads, n_writes, error, calls, cmuVars, parseVars>>

UpgradeNext == Call \/ LoopStep \/ Commit \/ Finish

SpecUpgrade == UpgradeInit /\ [][UpgradeNext]_vars

\* ------------------------------------------------------------------------
\* Properties of upgrade_5_to_6
\* ------------------------------------------------------------------------
Returned == upc = "returned"
Raised == upc = "raised"

Parsed(desc) == json_loads(desc).dict

AllRewritten ==
  \A r \in DOMAIN db :
    /\ new_json_of(pre[r].description).ok
    /\ db[r].description = new_json_of(pre[r].description).new_json

\* C1: the upgrade is all-or-nothing.  When the call raises, every persisted
\* row equals its value before the call; a call that met a malformed document
\* or a storage error never returns normally; when it returns, every run has
\* been rewritten.
C1_AllOrNothing ==
  /\ Raised => db = pre /\ error # "none"
  /\ Returned => AllRewritten /\ error = "none"
  /\ (upc \in {"returned", "raised"}
        /\ \E r \in DOMAIN pre : ~new_json_of(pre[r].description).ok)
       => Raised

\* the call failed at run K > 1 after rewriting an earlier run
C1_Witness ==
  /\ Raised
  /\ run_id > 1
  /\ \E r \in 1..(run_id - 1) :
       new_json_of(pre[r].description).new_json # pre[r].description

\* C2: after a successful upgrade every stored description is a document
\* whose first key is 'version' and whose 'interdependencies' value is the one
\* of the run's pre-upgrade description (where that was not null).
C2_VersionFirstIdpsKept ==
  Returned =>
    \A r \in DOMAIN db :
      LET now == json_loads(db[r].description)
      IN /\ now.ok /\ now.isdict
         /\ Len(now.dict) >= 1
         /\ now.dict[1][1] = "version"
         /\ DictHas(now.dict, "interdependencies")
         /\ pre[r].description # NullDesc =>
              DictGet(now.dict, "interdependencies")
                = DictGet(Parsed(pre[r].description), "interdependencies")

\* a successful upgrade of a document that did not start with 'version'
C2_Witness ==
  /\ Returned
  /\ \E r \in DOMAIN db :
       /\ pre[r].description.tag = "object"
       /\ pre[r].description.pairs[1][1] # "version"

\* C3: a second upgrade of a store on which the upgrade already succeeded
\* leaves every stored description as the first upgrade left it.
C3_Idempotent ==
  (on_upgraded /\ upc \in {"returned", "raised"}) => db = prev_ok[1]

\* the second upgrade of a non-empty store returned
C3_Witness ==
  /\ on_upgraded
  /\ Returned
  /\ n_writes > 0

CanonicalEmpty ==
  ObjectDesc(<<<<"version", JVal("0")>>,
               <<"interdependencies", empty_idps_ser>>>>)

\* C4: a run without description gets the canonical empty document (version 0
\* first, then the serialized empty dependency set), and a missing
\* description is never the document the upgrade fails on.
C4_NullDescription ==
  /\ Returned =>
       \A r \in DOMAIN db :
         pre[r].description = NullDesc => db[r].description = CanonicalEmpty
  /\ (Raised /\ error = "document") => pre[run_id].description # NullDesc

\* a successful upgrade of a store with a run without description
C4_Witness ==
  /\ Returned
  /\ \E r \in DOMAIN db : pre[r].description = NullDesc

SecondKeyIsIdpsVerbatim(r) ==
  LET now == Parsed(db[r].description)
  IN /\ Len(now) = 2
     /\ now[2] = <<"interdependencies",
                   DictGet(Parsed(pre[r].description), "interdependencies")>>

\* C5 as claimed: the rewritten document keeps a version that the parsed
\* description already had, and has version 0 otherwise.
C5_AsClaimed ==
  Returned =>
    \A r \in DOMAIN db :
      pre[r].description # NullDesc =>
        /\ Parsed(db[r].description)[1]
             = <<"version",
                 IF DictHas(Parsed(pre[r].description), "version")
                   THEN DictGet(Parsed(pre[r].description), "version")
                   ELSE JVal("0")>>
        /\ SecondKeyIsIdpsVerbatim(r)

\* C5: the rewritten document of a non-null description has version 0 as its
\* first member, whether or not the parsed description had a version, and
\* the parsed description's 'interdependencies' value as its second member.
C5_VersionAlwaysZero ==
  Returned =>
    \A r \in DOMAIN db :
      pre[r].description # NullDesc =>
        /\ Parsed(db[r].description)[1] = <<"version", JVal("0")>>
        /\ SecondKeyIsIdpsVerbatim(r)

\* a successful upgrade of a document that carried version 3
C5_Witness ==
  /\ Returned
  /\ \E r \in DOMAIN db :
       /\ pre[r].description.tag = "object"
       /\ DictHas(Parsed(pre[r].description), "version")
       /\ DictGet(Parsed(pre[r].description), "version") = JVal("3")

RowsKept ==
  /\ DOMAIN db' = DOMAIN db
  /\ \A r \in DOMAIN db : db'[r].guid = db[r].guid

\* C6: the upgrade creates and deletes no row and changes no column but the
\* description; on a store without runs it reads and writes no description
\* and, unless the max(run_id) query itself fails, returns normally.
C6_Frame ==
  /\ [][RowsKept]_vars
  /\ []((DOMAIN pre = {} /\ upc \in {"loop", "returned", "raised"})
          => /\ n_reads = 0 /\ n_writes = 0
             /\ error \in {"none", "storage"}
             /\ (upc = "raised" => error = "storage"))

\* the upgrade of a store without runs returned
C6_Witness ==
  /\ Returned
  /\ DOMAIN pre = {}
  /\ n_reads = 0

\* ------------------------------------------------------------------------
\* B1520A driver: parameters
\* ------------------------------------------------------------------------
MaxOps == 2         \* number of driver operations in one behaviour

\* one call of a MessageBuilder method, as handed to write (query = FALSE)
\* or ask (query = TRUE); tmo is the link timeout in force when it is sent
Cmd(mn, args, q, tmo) == [mn |-> mn, args |-> args, query |-> q, tmo |-> tmo]

\* python truth value of a bool, int or IntEnum
Truthy(val) == val # 0 /\ val # None

GroupOf(p) ==
  CASE p \in SeqRange(SweepStepsGroup) -> "steps"
    [] p \in SeqRange(SweepDelaysGroup) -> "delays"
    [] p \in SeqRange(AdcGroup) -> "adc"

GroupMembers(g) ==
  CASE g = "steps" -> SweepStepsGroup
    [] g = "delays" -> SweepDelaysGroup
    [] g = "adc" -> AdcGroup

GroupSetMn(g) ==
  CASE g = "steps" -> "WDCV" [] g = "delays" -> "WTDCV" [] g = "adc" -> "ACT"

GroupGetMn(g) ==
  CASE g \in {"steps", "delays"} ->
         "*LRN? CV_DC_BIAS_SWEEP_MEASUREMENT_SETTINGS"
    [] g = "adc" -> "*LRN? MFCMU_ADC_SETTING"

\* vals= of the parameters that declare a validator.  Times are in units of
\* 0.01 s, so Numbers(0, 655.35) is 0..65535; the Enum validators of
\* adc_mode, measurement_mode and impedance_model accept every enumerator,
\* and only enumerators are passed to them here.
Valid_hold_one_more(p, v) ==
  CASE p = "sweep_steps" -> v >= 1 /\ v <= 1001
    [] p = "adc_coef" -> v >= 1 /\ v <= 100
    [] p = "ac_dc_volt_monitor" -> v >= 0 /\ v <= 1
    [] p = "hold" -> v >= 0 /\ v <= 65536
    [] p \in {"delay", "measure_delay"} -> v >= 0 /\ v <= 6553
    [] p = "step_delay" -> v >= 0 /\ v <= 100
    [] p = "sweep_mode" -> v >= 1 /\ v <= 4
    [] OTHER -> TRUE

Valid(p, v) ==
  CASE p = "sweep_steps" -> v >= 1 /\ v <= 1001
    [] p = "adc_coef" -> v >= 1 /\ v <= 100
    [] p = "ac_dc_volt_monitor" -> v >= 0 /\ v <= 1
    [] p = "hold" -> v >= 0 /\ v <= 65535
    [] p \in {"delay", "measure_delay"} -> v >= 0 /\ v <= 6553
    [] p = "step_delay" -> v >= 0 /\ v <= 100
    [] p = "sweep_mode" -> v >= 1 /\ v <= 4
    [] OTHER -> TRUE

\* the one write a set of a parameter without get_cmd sends
WriteOnlyCmd_read_back(p, v, tmo) ==
  CASE p = "voltage_dc" -> Cmd("DCV", <<channel, v>>, FALSE, tmo)
    [] p = "voltage_ac" -> Cmd("ACV", <<channel, v>>, FALSE, tmo)
    [] p = "frequency" -> Cmd("FC", <<channel, v>>, TRUE, tmo)
    [] p = "phase_compensation_mode" -> Cmd("ADJ", <<channel, v>>, FALSE, tmo)
    [] p = "measurement_mode" -> Cmd("MM", <<v, channel>>, FALSE, tmo)
    [] p = "impedance_model" -> Cmd("IMP", <<v>>, FALSE, tmo)
    [] p = "ac_dc_volt_monitor" -> Cmd("LMN", <<v>>, FALSE, tmo)

WriteOnlyCmd(p, v, tmo) ==
  CASE p = "voltage_dc" -> Cmd("DCV", <<channel, v>>, FALSE, tmo)
    [] p = "voltage_ac" -> Cmd("ACV", <<channel, v>>, FALSE, tmo)
    [] p = "frequency" -> Cmd("FC", <<channel, v>>, FALSE, tmo)
    [] p = "phase_compensation_mode" -> Cmd("ADJ", <<channel, v>>, FALSE, tmo)
    [] p = "measurement_mode" -> Cmd("MM", <<v, channel>>, FALSE, tmo)
    [] p = "impedance_model" -> Cmd("IMP", <<v>>, FALSE, tmo)
    [] p = "ac_dc_volt_monitor" -> Cmd("LMN", <<v>>, FALSE, tmo)

\* the module's attributes and parameter caches as one record
Module ==
  [flag |-> setup_fnc_already_run, abort |-> sweep_auto_abort,
   post |-> post_sweep_voltage_cond, rmode |-> ranging_mode,
   range |-> measurement_range_for_non_auto, steps |-> sweep_steps_attr,
   cache |-> cache, tmo |-> timeout]

BecomesModule(m) ==
  /\ setup_fnc_already_run' = m.flag
  /\ sweep_auto_abort' = m.abort
  /\ post_sweep_voltage_cond' = m.post
  /\ ranging_mode' = m.rmode
  /\ measurement_range_for_non_auto' = m.range
  /\ sweep_steps_attr' = m.steps
  /\ cache' = m.cache
  /\ timeout' = m.tmo

\* received: the replies read from the link, in order
Result(m, cmds, status) ==
  [m |-> m, cmds |-> cmds, status |-> status, value |-> <<>>,
   received |-> <<>>]

\* Group.set_parameters for one member: the composite command carries the
\* new value of p and the cached values of the other members
GroupSet(m, p, v) ==
  LET g == GroupOf(p)
      mem == GroupMembers(g)
      c2 == [m.cache EXCEPT ![p] = v]
  IN Result([m EXCEPT !.cache = c2],
            <<Cmd(GroupSetMn(g), [i \in 1..Len(mem) |-> c2[mem[i]]], FALSE,
                  m.tmo)>>,
            "ok")

\* CVSweep._set_sweep_auto_abort
set_sweep_auto_abort(m, val) ==
  Result([m EXCEPT !.abort = val, !.cache["sweep_auto_abort"] = val],
         <<Cmd("WMDCV", <<val>>, FALSE, m.tmo)>>, "ok")

\* CVSweep._set_post_sweep_voltage_cond
set_post_sweep_voltage_cond(m, val) ==
  IF ~Truthy(m.abort)
    THEN Result(m, <<>>, "Warning")
    ELSE Result([m EXCEPT !.post = val,
                          !.cache["post_sweep_voltage_cond"] = val],
                <<Cmd("WMDCV", <<m.abort, val>>, FALSE, m.tmo)>>, "ok")

\* B1520A._set_ranging_mode
set_ranging_mode(m, val) ==
  LET range == IF val = RangingMode_AUTO THEN None ELSE m.range
  IN Result([m EXCEPT !.rmode = val, !.range = range,
                      !.cache["ranging_mode"] = val],
            <<Cmd("RC", <<channel, val, range>>, FALSE, m.tmo)>>, "ok")

\* B1520A._set_measurement_range_for_non_auto
set_measurement_range_for_non_auto(m, val) ==
  Result([m EXCEPT !.range = val,
                   !.cache["measurement_range_for_non_auto"] = val],
         <<Cmd("RC", <<channel, m.rmode, val>>, FALSE, m.tmo)>>, "ok")

\* parameter(value): validation, then the parameter's set_cmd, then the cache
SetParam(m, p, v) ==
  IF ~Valid(p, v) THEN Result(m, <<>>, "ValueError")
  ELSE CASE p \in GroupParams -> GroupSet(m, p, v)
         [] p \in WriteOnlyParams ->
              Result([m EXCEPT !.cache[p] = v],
                     <<WriteOnlyCmd(p, v, m.tmo)>>, "ok")
         [] p = "sweep_auto_abort" -> set_sweep_auto_abort(m, v)
         [] p = "post_sweep_voltage_cond" -> set_post_sweep_voltage_cond(m, v)
         [] p = "ranging_mode" -> set_ranging_mode(m, v)
         [] p = "measurement_range_for_non_auto" ->
              set_measurement_range_for_non_auto(m, v)

\* a get of a parameter declared with get_cmd=None: the cached value, with
\* nothing sent
GetCached(m, p) == [Result(m, <<>>, "ok") EXCEPT !.value = <<m.cache[p]>>]

\* the field values of a well-formed learn reply, in the group's order
ReplyFields(g) ==
  CASE g = "steps" -> <<channel, SweepMode_LINEAR, 0, 2, 5>>
    [] g = "delays" -> <<0, 1, 0, 0, 0>>
    [] g = "adc" -> <<ACT_PLC, 5>>

\* a field of a reply as text: an integer literal, a literal with a decimal
\* point, or text that is no number
Field(kind, val) == [kind |-> kind, val |-> val]

\* a reply to a learn query: none within the timeout, text without the
\* group's record, or text whose record has these fields
LearnReply(kind, fields) == [kind |-> kind, fields |-> fields]

\* the conversion each parser applies to each field
Converters(g) ==
  CASE g = "steps" -> <<"int", "int", "float", "float", "int">>
    [] g = "delays" -> <<"float", "float", "float", "float", "float">>
    [] g = "adc" -> <<"int", "int">>

OkReply(g) ==
  LearnReply("text", [i \in 1..Len(Converters(g)) |->
                        Field(Converters(g)[i], ReplyFields(g)[i])])

\* replies of the instrument to a group's learn query
GroupReplies(g) ==
  {LearnReply("timeout", <<>>), LearnReply("nomatch", <<>>), OkReply(g)}
    \cup {LearnReply("text", [OkReply(g).fields EXCEPT ![i] = Field(k, 1)]) :
            i \in 1..Len(Converters(g)), k \in {"bad", "float"}}

\* int(text) accepts integer literals only, float(text) every number
Converts(conv, field) ==
  IF conv = "int" THEN field.kind = "int"
  ELSE field.kind \in {"int", "float"}

get_parser_unconverted(g, reply) ==
  IF reply.kind # "text" THEN [status |-> "ValueError", out |-> <<>>]
  ELSE [status |-> "ok",
        out |-> [i \in 1..Len(reply.fields) |-> reply.fields[i].val]]

\* _get_sweep_steps_parser, _get_sweep_delays_parser, _get_adc_mode_parser:
\* the regular expression, then the conversion of every field
get_parser(g, reply) ==
  IF reply.kind # "text" THEN [status |-> "ValueError", out |-> <<>>]
  ELSE IF \E i \in 1..Len(reply.fields) :
            ~Converts(Converters(g)[i], reply.fields[i])
    THEN [status |-> "ValueError", out |-> <<>>]
  ELSE [status |-> "ok",
        out |-> [i \in 1..Len(reply.fields) |-> reply.fields[i].val]]

\* Group.update: one query, the get_parser, then every member's cache
GroupGet(m, g, reply) ==
  LET q == <<Cmd(GroupGetMn(g), <<>>, TRUE, m.tmo)>>
      mem == GroupMembers(g)
      idx(p) == CHOOSE i \in 1..Len(mem) : mem[i] = p
      parsed == get_parser(g, reply)
  IN IF reply.kind = "timeout" THEN Result(m, q, "Timeout")
     ELSE IF parsed.status # "ok"
       THEN [Result(m, q, parsed.status) EXCEPT !.received = <<reply>>]
     ELSE [Result([m EXCEPT !.cache =
                     [p \in Params |->
                        IF p \in SeqRange(mem) THEN parsed.out[idx(p)]
                        ELSE m.cache[p]]],
                  q, "ok")
             EXCEPT !.received = <<reply>>]

\* ------------------------------------------------------------------------
\* B1520A.parse_sweep_data
\* ------------------------------------------------------------------------
\* str.split(','): the pieces between the commas; the empty string gives ['']
RECURSIVE SplitAcc(_, _, _)
SplitAcc(str, i, cur) ==
  IF i > Len(str) THEN <<cur>>
  ELSE IF str[i] = "," THEN <<cur>> \o SplitAcc(str, i + 1, <<>>)
  ELSE SplitAcc(str, i + 1, Append(cur, str[i]))

Split(str) == SplitAcc(str, 1, <<>>)

RECURSIVE Join(_)
Join(toks) ==
  IF toks = <<>> THEN <<>>
  ELSE IF Len(toks) = 1 THEN toks[1]
  ELSE toks[1] \o <<",">> \o Join(Tail(toks))

Digits == {"0", "1", "2"}
DigitVal(c) == CASE c = "0" -> 0 [] c = "1" -> 1 [] c = "2" -> 2

RECURSIVE Decimal(_)
Decimal(ds) ==
  IF ds = <<>> THEN 0
  ELSE 10 * Decimal(SubSeq(ds, 1, Len(ds) - 1)) + DigitVal(ds[Len(ds)])

AllDigits(ds) == ds # <<>> /\ \A i \in 1..Len(ds) : ds[i] \in Digits

\* float(text): [ok, v]; a signed or unsigned run of digits converts
Float(text) ==
  IF text # <<>> /\ text[1] \in {"+", "-"} /\ AllDigits(Tail(text))
    THEN [ok |-> TRUE,
          v |-> IF text[1] = "-" THEN 0 - Decimal(Tail(text))
                ELSE Decimal(Tail(text))]
  ELSE IF AllDigits(text) THEN [ok |-> TRUE, v |-> Decimal(text)]
  ELSE [ok |-> FALSE, v |-> 0]

\* val[3:]
From3(val) == SubSeq(val, 4, Len(val))

\* the entries of no_str at the 0-based positions i with i % 2 = rem
RECURSIVE EveryOther(_, _, _)
EveryOther(no_str, i, rem) ==
  IF i >= Len(no_str) THEN <<>>
  ELSE IF i % 2 = rem THEN <<no_str[i + 1]>> \o EveryOther(no_str, i + 1, rem)
  ELSE EveryOther(no_str, i + 1, rem)

parse_sweep_data_swapped(raw) ==
  LET no_commas == Split(raw)
      conv == [i \in 1..Len(no_commas) |-> Float(From3(no_commas[i]))]
  IN IF \E i \in 1..Len(conv) : ~conv[i].ok
       THEN [done |-> TRUE, status |-> "ValueError", param1 |-> <<>>,
             param2 |-> <<>>]
       ELSE LET no_str == [i \in 1..Len(conv) |-> conv[i].v]
            IN [done |-> TRUE, status |-> "ok",
                param1 |-> EveryOther(no_str, 0, 1),
                param2 |-> EveryOther(no_str, 0, 0)]

parse_sweep_data(raw) ==
  LET no_commas == Split(raw)
      conv == [i \in 1..Len(no_commas) |-> Float(From3(no_commas[i]))]
  IN IF \E i \in 1..Len(conv) : ~conv[i].ok
       THEN [done |-> TRUE, status |-> "ValueError", param1 |-> <<>>,
             param2 |-> <<>>]
       ELSE LET no_str == [i \in 1..Len(conv) |-> conv[i].v]
            IN [done |-> TRUE, status |-> "ok",
                param1 |-> EveryOther(no_str, 0, 0),
                param2 |-> EveryOther(no_str, 0, 1)]

MaxTokens == 3      \* largest number of tokens in a sweep response

\* tokens a response is made of: header and number, and malformed ones
TokenSet ==
  { <<"N", "C", "C", "+", "1">>, <<"N", "C", "Y", "-", "2">>,
    <<"N", "C", "C", "1", "0">>, <<"N", "C">>, <<"N", "C", "C", "x">>,
    <<>> }

ParseInit ==
  /\ \E n \in 1..MaxTokens :
       \E toks \in [1..n -> TokenSet] : raw_data = Join(toks)
  /\ sweep_result = NotParsed
  /\ db = <<>>
  /\ StoreStart
  /\ ModuleStart

ParseSweepData ==
  /\ ~sweep_result.done
  /\ sweep_result' = parse_sweep_data(raw_data)
  /\ UNCHANGED <<raw_data, upgradeVars, cmuVars>>

ParseNext == ParseSweepData

SpecParse == ParseInit /\ [][ParseNext]_vars

Tokens == Split(raw_data)
NumberOf(tok) == Float(From3(tok))
WellFormed == \A i \in 1..Len(Tokens) : NumberOf(Tokens[i]).ok

\* param1 holds the numbers of the tokens at positions 0, 2, 4, ... and
\* param2 those at positions 1, 3, 5, ..., in response order
Alternating ==
  /\ Len(sweep_result.param1) = (Len(Tokens) + 1) \div 2
  /\ Len(sweep_result.param2) = Len(Tokens) \div 2
  /\ \A i \in 1..Len(sweep_result.param1) :
       sweep_result.param1[i] = NumberOf(Tokens[2 * i - 1]).v
  /\ \A i \in 1..Len(sweep_result.param2) :
       sweep_result.param2[i] = NumberOf(Tokens[2 * i]).v

Resolves(name) == name \in Submodules \cup Params

MaxRecords == 3     \* largest number of tokens in a spot response

\* tokens of a spot response: the word characters in front of the number,
\* the number, and whether its text has the form [+-]d.dddE[+-]dd
SpotToken(header, value, wellformed) ==
  [header |-> header, value |-> value, wellformed |-> wellformed]

SpotTokens ==
  { SpotToken(<<"N", "C", "C">>, 1, TRUE),
    SpotToken(<<"N", "C", "Y">>, 2, TRUE),
    SpotToken(<<>>, 3, TRUE),
    SpotToken(<<"N", "C", "C">>, 0, FALSE),
    SpotToken(<<"C", "A", "F", "R">>, 4, TRUE) }

\* responses to the TC spot query
CapResponses ==
  UNION {[1..n -> SpotTokens] : n \in 0..MaxRecords}

\* the responses the instrument gives while other operations are exercised
SomeCapResponses ==
  { <<>>,
    <<SpotToken(<<"N", "C", "C">>, 1, TRUE),
      SpotToken(<<"N", "C", "Y">>, 2, TRUE)>>,
    <<SpotToken(<<"N", "C", "Y">>, 2, TRUE),
      SpotToken(<<"N", "C", "C">>, 1, TRUE)>> }

\* one match of _pattern in a token: the optional group takes the three word
\* characters in front of the number, the third being dtype; with fewer than
\* three the group does not take part and dtype is None ("")
PatternMatch(tok) ==
  [dtype |-> IF Len(tok.header) >= 3 THEN tok.header[Len(tok.header)]
             ELSE "",
   value |-> tok.value]

HasNumber(tok) == tok.wellformed

\* re.finditer(_pattern, response): a match for every number found
pattern_finditer(response) ==
  LET found == SelectSeq(response, HasNumber)
  IN [i \in 1..Len(found) |-> PatternMatch(found[i])]

get_capacitance_count_only(m, response, timed_out) ==
  LET cmds == <<Cmd("MM", <<MM_SPOT_C, channel>>, FALSE, m.tmo),
                Cmd("TC", <<channel, RangingMode_AUTO>>, TRUE, m.tmo)>>
      parsed == pattern_finditer(response)
  IN IF timed_out THEN Result(m, cmds, "Timeout")
     ELSE IF Len(parsed) # 2
       THEN [Result(m, cmds, "ValueError") EXCEPT !.received = <<response>>]
     ELSE [Result(m, cmds, "ok")
             EXCEPT !.value = <<parsed[1].value, parsed[2].value>>,
                    !.received = <<response>>]

\* B1520A._get_capacitance
get_capacitance(m, response, timed_out) ==
  LET cmds == <<Cmd("MM", <<MM_SPOT_C, channel>>, FALSE, m.tmo),
                Cmd("TC", <<channel, RangingMode_AUTO>>, TRUE, m.tmo)>>
      parsed == pattern_finditer(response)
  IN IF timed_out THEN Result(m, cmds, "Timeout")
     ELSE IF Len(parsed) # 2 \/ parsed[1].dtype # "C" \/ parsed[2].dtype # "Y"
       THEN [Result(m, cmds, "ValueError") EXCEPT !.received = <<response>>]
     ELSE [Result(m, cmds, "ok")
             EXCEPT !.value = <<parsed[1].value, parsed[2].value>>,
                    !.received = <<response>>]

\* B1520A.phase_compensation: the query runs under the extended timeout,
\* which the context manager puts back however the query ends
phase_compensation_restore_on_success(m, mode, timed_out) ==
  LET during == [m EXCEPT !.tmo = phase_compensation_timeout]
      cmds == <<Cmd("ADJ?", <<channel, mode>>, TRUE, during.tmo)>>
  IN IF timed_out THEN Result(during, cmds, "Timeout")
     ELSE Result([during EXCEPT !.tmo = m.tmo], cmds, "ok")

phase_compensation(m, mode, timed_out) ==
  LET during == [m EXCEPT !.tmo = phase_compensation_timeout]
      cmds == <<Cmd("ADJ?", <<channel, mode>>, TRUE, during.tmo)>>
  IN Result([during EXCEPT !.tmo = m.tmo], cmds,
            IF timed_out THEN "Timeout" ELSE "ok")

\* B1520A.abort
abort(m) == Result(m, <<Cmd("AB", <<>>, FALSE, m.tmo)>>, "ok")

\* Correction.enable
correction_enable(m, corr) ==
  Result(m, <<Cmd("CORRST", <<channel, corr, 1>>, FALSE, m.tmo)>>, "ok")

\* Correction.is_enabled
correction_is_enabled(m, corr, timed_out) ==
  Result(m, <<Cmd("CORRST?", <<channel, corr>>, TRUE, m.tmo)>>,
         IF timed_out THEN "Timeout" ELSE "ok")

correction_perform_unread(m, corr, timed_out) ==
  Result(m, <<Cmd("CORR?", <<channel, corr>>, FALSE, m.tmo)>>, "ok")

\* Correction.perform
correction_perform(m, corr, timed_out) ==
  Result(m, <<Cmd("CORR?", <<channel, corr>>, TRUE, m.tmo)>>,
         IF timed_out THEN "Timeout" ELSE "ok")

\* Correction.perform_and_enable
correction_perform_and_enable(m, corr, timed_out1, timed_out2) ==
  LET r1 == correction_perform(m, corr, timed_out1)
      r2 == correction_enable(r1.m, corr)
      r3 == correction_is_enabled(r2.m, corr, timed_out2)
  IN IF r1.status # "ok" THEN r1
     ELSE Result(r3.m, r1.cmds \o r2.cmds \o r3.cmds, r3.status)

\* FrequencyList.query, as far as its ask
frequency_list_query(m, index, timed_out) ==
  Result(m, <<Cmd("CORRL?", <<channel, index>>, TRUE, m.tmo)>>,
         IF timed_out THEN "Timeout" ELSE "ok")

\* the parameter calls of setup_staircase_cv, lines 644-664, in order
SetupAssignments(in) ==
  << <<"adc_mode", in.adc_mode>>, <<"adc_coef", in.adc_coef>>,
     <<"frequency", in.freq>>, <<"voltage_ac", in.ac_rms>>,
     <<"sweep_auto_abort", in.abort_enabled>>,
     <<"post_sweep_voltage_cond", in.post_sweep_voltage_cond>>,
     <<"hold", in.hold_delay>>, <<"delay", in.delay>>,
     <<"step_delay", in.step_delay>>, <<"trigger_delay", in.trigger_delay>>,
     <<"measure_delay", in.measure_delay>>,
     <<"sweep_mode", in.sweep_mode>>, <<"sweep_start", in.v_start>>,
     <<"sweep_end", in.v_end>>, <<"_sweep_steps", in.n_steps>>,
     <<"sweep_steps", in.n_steps>>,
     <<"measurement_mode", MM_CV_DC_SWEEP>>,
     <<"impedance_model", in.imp_model>>,
     <<"ac_dc_volt_monitor", in.volt_monitor>>,
     <<"ranging_mode", in.ranging_mode>>,
     <<"measurement_range_for_non_auto", in.fixed_range_val>> >>

\* the calls from position i on; the first one that raises ends the sequence
RECURSIVE SetAll(_, _, _, _)
SetAll(m, asg, i, cmds) ==
  IF i > Len(asg) THEN Result(m, cmds, "ok")
  ELSE IF asg[i][1] = "_sweep_steps"
    THEN SetAll([m EXCEPT !.steps = asg[i][2]], asg, i + 1, cmds)
  ELSE LET r == SetParam(m, asg[i][1], asg[i][2])
       IN IF r.status # "ok" THEN Result(r.m, cmds \o r.cmds, r.status)
          ELSE SetAll(r.m, asg, i + 1, cmds \o r.cmds)

\* lines 666-668: the flag after the error query replied err
flag_after_any_reply(flag, err) == TRUE

flag_after_reset_on_error(flag, err) == err = NoError

flag_after(flag, err) == IF err = NoError THEN TRUE ELSE flag

\* B1520A.setup_staircase_cv
setup_staircase_cv(m, in, err) ==
  LET enable == <<Cmd("CN", <<channel>>, FALSE, m.tmo)>>
      r == SetAll(m, SetupAssignments(in), 1, enable)
      asked == r.cmds \o <<Cmd("ERRX?", <<>>, TRUE, m.tmo)>>
      m2 == [r.m EXCEPT !.flag = flag_after(r.m.flag, err)]
  IN IF r.status # "ok" THEN r
     ELSE IF ~Resolves("self") THEN Result(m2, asked, "AttributeError")
     ELSE [Result(m2,
                  asked \o <<Cmd("clear_buffer_of_error_message", <<>>,
                                 FALSE, m.tmo)>>,
                  "ok")
             EXCEPT !.value = <<err>>]

\* replies to the XE query
XeReplies ==
  { Join(<<<<"N", "C", "C", "+", "1">>, <<"N", "C", "Y", "-", "2">>>>),
    Join(<<<<"N", "C", "C", "+", "1">>>>) }

\* line 714: the guard of get_raw
not_ready_never(flag) == FALSE

not_ready(flag) == ~flag

\* CVSweepMeasurement.get_raw.  _cv_sweep_voltages reads sweep_start,
\* sweep_end, sweep_steps and sweep_mode, each read a query of the sweep
\* steps group; in the linear mode it makes six of them.
get_raw(m, steps_reply, delays_reply, raw, xe_timed_out) ==
  IF not_ready(m.flag) THEN Result(m, <<>>, "Warning")
  ELSE
    LET r1 == GroupGet(m, "steps", steps_reply)
    IN IF r1.status # "ok" THEN r1
       ELSE IF ~Resolves("cvsweep")
         THEN Result(r1.m, r1.cmds, "AttributeError")
       ELSE
         LET r2 == GroupGet(r1.m, "delays", delays_reply)
             num_steps == r1.m.cache["sweep_steps"]
             delay_time == r2.m.cache["step_delay"]
             limiting_time == delay_time * num_steps * 6
             reads == r1.cmds \o r2.cmds \o r1.cmds \o r1.cmds \o r1.cmds
                        \o r1.cmds \o r1.cmds \o r1.cmds
             asked == reads \o <<Cmd("XE", <<>>, TRUE, limiting_time)>>
             data == parse_sweep_data(raw)
         IN IF r2.status # "ok"
              THEN Result(r2.m, r1.cmds \o r2.cmds, r2.status)
            ELSE IF xe_timed_out THEN Result(r2.m, asked, "Timeout")
            ELSE IF data.status # "ok" THEN Result(r2.m, asked, data.status)
            ELSE [Result(r2.m, asked, "ok")
                    EXCEPT !.value = <<data.param1, data.param2>>]

\* ------------------------------------------------------------------------
\* B1520A driver: the module as a state machine
\* ------------------------------------------------------------------------
CmuInit ==
  /\ \E tmo \in Timeouts : ModuleStartWith(tmo)
  /\ db = <<>>
  /\ StoreStart
  /\ ParseStart

\* an operation with result r has run to its return or its exception
RanWith(name, arg, val, r) ==
  /\ ops < MaxOps
  /\ ops' = ops + 1
  /\ BecomesModule(r.m)
  /\ sent' = r.cmds
  /\ last_op' = [name |-> name, arg |-> arg, val |-> val]
  /\ outcome' = [status |-> r.status, value |-> r.value,
                 received |-> r.received]
  /\ UNCHANGED <<upgradeVars, parseVars>>

\* an operation that takes no value
Ran(name, arg, r) == RanWith(name, arg, None, r)

\* the values a caller passes to a parameter
InputValues(p) ==
  CASE p = "sweep_steps" -> {0, 5}
    [] p = "sweep_auto_abort" -> {0, Abort_DISABLED, Abort_ENABLED}
    [] p = "post_sweep_voltage_cond" -> {Post_STOP}
    [] p = "ranging_mode" -> {RangingMode_AUTO, RangingMode_FIXED}
    [] p = "measurement_range_for_non_auto" -> {None, 50}
    [] p = "measurement_mode" -> {MM_CV_DC_SWEEP}
    [] p = "impedance_model" -> {IMP_Cp_D}
    [] p = "adc_mode" -> {ACT_PLC}
    [] p = "chan" -> {channel}
    [] p = "hold" -> {65535, 65536}
    [] OTHER -> {1}

SetParameter ==
  \E p \in Params : \E v \in InputValues(p) :
    RanWith("set", p, v, SetParam(Module, p, v)) /\ UNCHANGED err_reply

GetParameter ==
  \E p \in WriteOnlyParams \cup AttrParams :
    Ran("get", p, GetCached(Module, p)) /\ UNCHANGED err_reply

GetGroupParameter ==
  \E g \in {"steps", "delays", "adc"} : \E reply \in GroupReplies(g) :
    Ran("get", g, GroupGet(Module, g, reply)) /\ UNCHANGED err_reply

GetCapacitance ==
  \E response \in SomeCapResponses : \E timed_out \in BOOLEAN :
    /\ timed_out => response = <<>>
    /\ Ran("get", "capacitance",
           get_capacitance(Module, response, timed_out))
    /\ UNCHANGED err_reply

PhaseCompensation ==
  \E timed_out \in BOOLEAN :
    /\ Ran("phase_compensation", "", phase_compensation(Module, 1, timed_out))
    /\ UNCHANGED err_reply

Abort ==
  Ran("abort", "", abort(Module)) /\ UNCHANGED err_reply

CorrectionEnable ==
  Ran("correction.enable", "", correction_enable(Module, 1))
    /\ UNCHANGED err_reply

CorrectionIsEnabled ==
  \E timed_out \in BOOLEAN :
    /\ Ran("correction.is_enabled", "",
           correction_is_enabled(Module, 1, timed_out))
    /\ UNCHANGED err_reply

CorrectionPerform ==
  \E timed_out \in BOOLEAN :
    /\ Ran("correction.perform", "", correction_perform(Module, 1, timed_out))
    /\ UNCHANGED err_reply

CorrectionPerformAndEnable ==
  \E t1 \in BOOLEAN : \E t2 \in BOOLEAN :
    /\ t1 => ~t2
    /\ Ran("correction.perform_and_enable", "",
           correction_perform_and_enable(Module, 1, t1, t2))
    /\ UNCHANGED err_reply

FrequencyListQuery ==
  \E index \in {None, 1} : \E timed_out \in BOOLEAN :
    /\ Ran("correction.frequency_list.query", "",
           frequency_list_query(Module, index, timed_out))
    /\ UNCHANGED err_reply

\* arguments of setup_staircase_cv: the defaults of its signature, with the
\* step count, abort switch and ranging varied
SetupInputs ==
  { [v_start |-> 0, v_end |-> 2, n_steps |-> n, freq |-> 1, ac_rms |-> 1,
     post_sweep_voltage_cond |-> Post_STOP, adc_mode |-> ACT_PLC,
     adc_coef |-> 5, imp_model |-> IMP_Cp_D, ranging_mode |-> rm,
     fixed_range_val |-> None, hold_delay |-> 0, delay |-> 0,
     step_delay |-> 0, trigger_delay |-> 0, measure_delay |-> 0,
     abort_enabled |-> ab, sweep_mode |-> SweepMode_LINEAR,
     volt_monitor |-> 0] :
    n \in {0, 5}, ab \in {0, Abort_ENABLED},
    rm \in {RangingMode_AUTO} }

SetupStaircaseCv ==
  \E in \in SetupInputs : \E err \in ErrReplies :
    LET r == setup_staircase_cv(Module, in, err)
        asked == \E i \in 1..Len(r.cmds) : r.cmds[i].mn = "ERRX?"
    IN /\ Ran("setup_staircase_cv", "", r)
       /\ err_reply' = IF asked THEN err ELSE err_reply

RunSweep ==
  \E steps_reply \in GroupReplies("steps") : \E raw \in XeReplies :
    /\ Ran("get", "run_sweep",
           get_raw(Module, steps_reply, OkReply("delays"), raw, FALSE))
    /\ UNCHANGED err_reply

CmuNext ==
  \/ SetParameter
  \/ GetParameter
  \/ GetGroupParameter
  \/ GetCapacitance
  \/ PhaseCompensation
  \/ Abort
  \/ CorrectionEnable
  \/ CorrectionIsEnabled
  \/ CorrectionPerform
  \/ CorrectionPerformAndEnable
  \/ FrequencyListQuery
  \/ SetupStaircaseCv
  \/ RunSweep

SpecCmu == CmuInit /\ [][CmuNext]_vars

\* ------------------------------------------------------------------------
\* Properties of the sweep readout
\* ------------------------------------------------------------------------
\* this step is a read of run_sweep
RunSweepStep ==
  /\ ops' = ops + 1
  /\ last_op' = [name |-> "get", arg |-> "run_sweep", val |-> None]

Mnemonics(cmds) == [i \in 1..Len(cmds) |-> cmds[i].mn]

CountOf(mn, cmds) == Cardinality({i \in 1..Len(cmds) : cmds[i].mn = mn})

\* C7: a read of run_sweep while setup_fnc_already_run is False ends in the
\* not-ready Warning, sends nothing and changes no module state.
C7_NotReady ==
  [][(RunSweepStep /\ ~setup_fnc_already_run) =>
       /\ outcome'.status = "Warning"
       /\ sent' = <<>>
       /\ UNCHANGED moduleVars]_vars

\* run_sweep was read on a module that is not configured
C7_Witness ==
  /\ last_op = [name |-> "get", arg |-> "run_sweep", val |-> None]
  /\ ~setup_fnc_already_run
  /\ outcome.status = "Warning"

\* the commands of a setup_staircase_cv call that got as far as its error query
FullSetupSequence ==
  <<"CN", "ACT", "ACT", "FC", "ACV", "WMDCV", "WMDCV", "WTDCV", "WTDCV",
    "WTDCV", "WTDCV", "WTDCV", "WDCV", "WDCV", "WDCV", "WDCV", "MM", "IMP",
    "LMN", "RC", "RC", "ERRX?">>

\* C8: the module starts not configured, and setup_fnc_already_run turns True
\* only in a setup_staircase_cv call that sent its whole configuration
\* sequence and whose error query replied '+0,"No Error."'.
C8_ReadyOnlyBySetup ==
  /\ [](ops = 0 => ~setup_fnc_already_run)
  /\ [][(~setup_fnc_already_run /\ setup_fnc_already_run') =>
          /\ last_op'.name = "setup_staircase_cv"
          /\ Mnemonics(sent') = FullSetupSequence
          /\ err_reply' = NoError]_vars

\* a setup_staircase_cv call has made the module ready
C8_Witness ==
  /\ setup_fnc_already_run
  /\ last_op.name = "setup_staircase_cv"
  /\ err_reply = NoError

\* C9 as claimed: unless the link times out or a reply does not parse, a read
\* of run_sweep on a ready module sends XE exactly once, returns the parsed
\* result and leaves the module ready.
C9_AsClaimed ==
  [][(RunSweepStep /\ setup_fnc_already_run
        /\ outcome'.status \notin {"Timeout", "ValueError"}) =>
       /\ CountOf("XE", sent') = 1
       /\ outcome'.status = "ok"
       /\ setup_fnc_already_run']_vars

\* ------------------------------------------------------------------------
\* Properties of the spot measurement
\* ------------------------------------------------------------------------
\* the spot measurement alone, over every response up to MaxRecords tokens
SpotInit ==
  /\ db = <<>>
  /\ StoreStart
  /\ ModuleStart
  /\ ParseStart

SpotRead ==
  \E response \in CapResponses : \E timed_out \in BOOLEAN :
    /\ timed_out => response = <<>>
    /\ Ran("get", "capacitance",
           get_capacitance(Module, response, timed_out))
    /\ UNCHANGED err_reply

SpotNext == SpotRead

SpecSpot == SpotInit /\ [][SpotNext]_vars

CapacitanceRead ==
  last_op = [name |-> "get", arg |-> "capacitance", val |-> None]

\* the tokens of the response that carry a number, in response order
Records(response) == SelectSeq(response, HasNumber)

TaggedAs(tok, tag) ==
  Len(tok.header) >= 3 /\ tok.header[Len(tok.header)] = tag

\* C11: a capacitance read returns a pair exactly when the response holds two
\* records, the first tagged 'C' and the second 'Y'; with another record
\* count, other tags or a record without header it raises ValueError and
\* returns no value.
C11_SpotFormat ==
  (CapacitanceRead /\ outcome.status # "Timeout") =>
    LET recs == Records(outcome.received[1])
        wanted == /\ Len(recs) = 2
                  /\ TaggedAs(recs[1], "C")
                  /\ TaggedAs(recs[2], "Y")
    IN IF wanted
         THEN /\ outcome.status = "ok"
              /\ outcome.value = <<recs[1].value, recs[2].value>>
         ELSE /\ outcome.status = "ValueError"
              /\ outcome.value = <<>>

\* a read whose response had the two records in swapped order was rejected
C11_Witness ==
  /\ CapacitanceRead
  /\ outcome.status = "ValueError"
  /\ Len(outcome.received) = 1
  /\ Len(Records(outcome.received[1])) = 2
  /\ TaggedAs(Records(outcome.received[1])[1], "Y")
  /\ TaggedAs(Records(outcome.received[1])[2], "C")

\* ------------------------------------------------------------------------
\* Properties of parameter sets and gets
\* ------------------------------------------------------------------------
SetStep(p, v) ==
  /\ ops' = ops + 1
  /\ last_op' = [name |-> "set", arg |-> p, val |-> v]

\* C12: a set of cv_sweep.hold above 655.35 s (65535 hundredths) raises
\* ValueError before any command is sent and leaves the cache as it was; a
\* set of exactly 655.35 s sends the one composite WTDCV write carrying that
\* value and caches that value.
C12_HoldValidated ==
  [][/\ SetStep("hold", 65536) =>
          /\ outcome'.status = "ValueError"
          /\ sent' = <<>>
          /\ UNCHANGED moduleVars
     /\ SetStep("hold", 65535) =>
          /\ outcome'.status = "ok"
          /\ Len(sent') = 1
          /\ sent'[1].mn = "WTDCV"
          /\ ~sent'[1].query
          /\ sent'[1].args[1] = 65535
          /\ cache'["hold"] = 65535]_vars

\* hold was set to 655.36 s and the set was refused
C12_Witness ==
  /\ last_op = [name |-> "set", arg |-> "hold", val |-> 65536]
  /\ outcome.status = "ValueError"
  /\ sent = <<>>

GetStep(p) ==
  /\ ops' = ops + 1
  /\ last_op' = [name |-> "get", arg |-> p, val |-> None]

C14_GroupGet ==
  [][\A g \in {"steps", "delays", "adc"} :
       (GetStep(g) /\ outcome'.status # "Timeout") =>
         LET reply == outcome'.received[1]
             mem == GroupMembers(g)
             good == /\ reply.kind = "text"
                     /\ \A i \in 1..Len(mem) :
                          \/ reply.fields[i].kind = "int"
                          \/ /\ reply.fields[i].kind = "float"
                             /\ Converters(g)[i] = "float"
         IN /\ Len(sent') = 1
            /\ sent'[1].query
            /\ sent'[1].mn = GroupGetMn(g)
            /\ IF good
                 THEN /\ outcome'.status = "ok"
                      /\ \A i \in 1..Len(mem) :
                           cache'[mem[i]] = reply.fields[i].val
                      /\ \A p \in Params \ SeqRange(mem) :
                           cache'[p] = cache[p]
                 ELSE /\ outcome'.status = "ValueError"
                      /\ UNCHANGED moduleVars]_vars

\* a learn reply whose step count is no integer was refused
C14_Witness ==
  /\ last_op = [name |-> "get", arg |-> "steps", val |-> None]
  /\ outcome.status = "ValueError"
  /\ Len(outcome.received) = 1
  /\ outcome.received[1].kind = "text"
  /\ outcome.received[1].fields[5].kind = "bad"

\* ------------------------------------------------------------------------
\* Properties of the link traffic
\* ------------------------------------------------------------------------
\* the commands the instrument answers: the messages the driver sends by ask
ExpectsReply(mn) ==
  mn \in {"TC", "ADJ?", "XE", "CORRST?", "DCORR?", "CORR?", "CORRL?",
          "ERRX?", GroupGetMn("steps"), GroupGetMn("adc")}

\* the answered commands before the k-th whose reply nobody has read
Unread(cmds, k) ==
  {i \in 1..(k - 1) : ExpectsReply(cmds[i].mn) /\ ~cmds[i].query}

IsPrefix(a, b) ==
  Len(a) <= Len(b) /\ \A i \in 1..Len(a) : a[i] = b[i]

\* the commands of each query operation, in the order of its code
ProgramOrder(name, arg) ==
  CASE name = "get" /\ arg = "capacitance" -> <<"MM", "TC">>
    [] name = "phase_compensation" -> <<"ADJ?">>
    [] name = "correction.perform" -> <<"CORR?">>
    [] name = "correction.is_enabled" -> <<"CORRST?">>
    [] name = "correction.perform_and_enable" ->
         <<"CORR?", "CORRST", "CORRST?">>
    [] name = "correction.frequency_list.query" -> <<"CORRL?">>
    [] OTHER -> <<>>

QueryOperations ==
  {"phase_compensation", "correction.perform", "correction.is_enabled",
   "correction.perform_and_enable", "correction.frequency_list.query"}

\* C15: in every operation each command that the instrument answers is sent
\* by a blocking ask, so that no reply is outstanding when the next command
\* goes out; an operation whose query times out sends nothing after it; and
\* the commands of the capacitance read, phase_compensation, the correction
\* operations and the frequency-list query go out in the order of the code.
C15_OneInFlight ==
  [][ops' = ops + 1 =>
       /\ \A k \in 1..(Len(sent') + 1) : Unread(sent', k) = {}
       /\ outcome'.status = "Timeout" =>
            /\ sent' # <<>>
            /\ sent'[Len(sent')].query
       /\ (\/ last_op'.name \in QueryOperations
           \/ (last_op'.name = "get" /\ last_op'.arg = "capacitance")) =>
            /\ IsPrefix(Mnemonics(sent'),
                        ProgramOrder(last_op'.name, last_op'.arg))
            /\ outcome'.status # "Timeout" =>
                 Mnemonics(sent') = ProgramOrder(last_op'.name, last_op'.arg)
       /\ (last_op'.name = "get" /\ last_op'.arg = "run_sweep"
             /\ sent' # <<>>) =>
            \A i \in 1..Len(sent') : sent'[i].query]_vars

\* perform_and_enable ran its query, its write and its second query
C15_Witness ==
  /\ last_op.name = "correction.perform_and_enable"
  /\ outcome.status = "ok"
  /\ Mnemonics(sent) = <<"CORR?", "CORRST", "CORRST?">>
  /\ sent[1].query /\ ~sent[2].query /\ sent[3].query

\* C16: phase_compensation sends the ADJ? query exactly once, under a link
\* timeout of 60 s; when the query times out the error reaches the caller
\* with nothing sent again; and after the operation the link timeout is what
\* it was before, whether the query succeeded or timed out.
C16_NoRetry ==
  [][(ops' = ops + 1 /\ last_op'.name = "phase_compensation") =>
       /\ Len(sent') = 1
       /\ sent'[1].mn = "ADJ?"
       /\ sent'[1].query
       /\ sent'[1].tmo = 60
       /\ outcome'.status \in {"ok", "Timeout"}
       /\ timeout' = timeout]_vars

\* a phase compensation timed out on a link whose timeout was not the default
C16_Witness ==
  /\ last_op.name = "phase_compensation"
  /\ outcome.status = "Timeout"
  /\ CountOf("ADJ?", sent) = 1
  /\ sent[1].tmo = 60
  /\ timeout = 10

\* ------------------------------------------------------------------------
\* Properties of setup_staircase_cv
\* ------------------------------------------------------------------------
\* C17 as claimed: a setup_staircase_cv call whose parameter sets all
\* succeed sends the configuration in its fixed order, queries the error
\* status, clears the error buffer on the root instrument and returns the
\* error status string.
C17_AsClaimed ==
  [][(/\ ops' = ops + 1
      /\ last_op'.name = "setup_staircase_cv"
      /\ CountOf("ERRX?", sent') = 1) =>
       /\ Mnemonics(sent') =
            FullSetupSequence \o <<"clear_buffer_of_error_message">>
       /\ outcome'.status = "ok"
       /\ outcome'.value = <<err_reply'>>]_vars

\* ------------------------------------------------------------------------
\* Properties of the sweep abort settings
\* ------------------------------------------------------------------------
\* the values a caller passes to sweep_auto_abort to switch the automatic
\* abort off: False and Abort.DISABLED
AbortDisabled == {0, Abort_DISABLED}

\* the latest operation set sweep_auto_abort to a disabled value
AbortSetDisabled ==
  /\ last_op.name = "set"
  /\ last_op.arg = "sweep_auto_abort"
  /\ last_op.val \in AbortDisabled
  /\ outcome.status = "ok"

\* C18 as claimed: once sweep_auto_abort has been set to False or to
\* Abort.DISABLED, a set of post_sweep_voltage_cond raises, sends nothing and
\* leaves the stored condition as it was; and within one operation no WMDCV
\* command with a post argument follows a WMDCV command that switched the
\* abort off.
C18_AsClaimed ==
  [][/\ (/\ ops' = ops + 1
         /\ last_op'.name = "set"
         /\ last_op'.arg = "post_sweep_voltage_cond"
         /\ AbortSetDisabled) =>
          /\ outcome'.status = "Warning"
          /\ sent' = <<>>
          /\ post_sweep_voltage_cond' = post_sweep_voltage_cond
     /\ \A i \in 1..Len(sent') : \A j \in (i + 1)..Len(sent') :
          (/\ sent'[i].mn = "WMDCV"
           /\ Len(sent'[i].args) = 1
           /\ sent'[i].args[1] \in AbortDisabled) =>
            ~(sent'[j].mn = "WMDCV" /\ Len(sent'[j].args) = 2)]_vars

\* ------------------------------------------------------------------------
\* The sweep voltages.  Voltages are in mV, so the resolution 0.005 V is 5.
\* ------------------------------------------------------------------------
resolution == 5

\* line 344: sign = lambda s: s and (1, -1)[s < 0]
sign(s) == IF s = 0 THEN 0 ELSE IF s < 0 THEN -1 ELSE 1

\* lines 348-356: the endpoints handed to the generator of a logarithmic mode
log_endpoints(start_value, end_value) ==
  IF sign(start_value) # sign(end_value)
    THEN IF sign(start_value) = 0
           THEN [status |-> "ok", start |-> sign(start_value) * resolution,
                 end |-> end_value]
         ELSE IF sign(end_value) = 0
           THEN [status |-> "ok", start |-> start_value,
                 end |-> sign(end_value) * resolution]
         ELSE [status |-> "AssertionError", start |-> start_value,
               end |-> end_value]
  ELSE [status |-> "ok", start |-> start_value, end |-> end_value]

\* B1520A._cv_sweep_voltages, with the instrument giving the same learn reply
\* to every read of sweep_start, sweep_end, sweep_steps and sweep_mode; the
\* value is the argument list handed to the generator of the mode
cv_sweep_voltages(m, reply) ==
  LET r == GroupGet(m, "steps", reply)
      c == r.m.cache
      mode == c["sweep_mode"]
      log == mode \in {2, 4}
      ends == IF log THEN log_endpoints(c["sweep_start"], c["sweep_end"])
              ELSE [status |-> "ok", start |-> c["sweep_start"],
                    end |-> c["sweep_end"]]
      tests == IF mode = 2 THEN r.cmds ELSE r.cmds \o r.cmds
      checks == IF log THEN r.cmds ELSE <<>>
      reads == r.cmds \o r.cmds \o r.cmds \o tests \o checks
  IN IF r.status # "ok" THEN r
     ELSE IF ends.status # "ok"
       THEN [Result(r.m, reads, ends.status) EXCEPT !.received = <<reply>>]
     ELSE [Result(r.m, reads \o r.cmds, "ok")
             EXCEPT !.received = <<reply>>,
                    !.value = <<ends.start, ends.end, c["sweep_steps"]>>]

\* sweep endpoints the instrument reports
Endpoints == {-1000, 0, 1000, 2000}

SweepReplies ==
  {LearnReply("text", <<Field("int", channel), Field("int", mode),
                        Field("float", s), Field("float", e),
                        Field("int", 5)>>) :
     mode \in 1..4, s \in Endpoints, e \in Endpoints}
    \cup {LearnReply("nomatch", <<>>)}

SweepVoltagesInit ==
  /\ db = <<>>
  /\ StoreStart
  /\ ModuleStart
  /\ ParseStart

CvSweepVoltages ==
  \E reply \in SweepReplies :
    /\ Ran("get", "cv_sweep_voltages", cv_sweep_voltages(Module, reply))
    /\ UNCHANGED err_reply

SweepVoltagesNext == CvSweepVoltages

SpecSweepVoltages == SweepVoltagesInit /\ [][SweepVoltagesNext]_vars

\* C19 as claimed: in sweep modes 2 and 4 a start and end that are both
\* non-zero with opposite polarity give the polarity AssertionError, and when
\* exactly one of them is zero the generator receives 0.005 V in magnitude in
\* its place and the other endpoint as it is, never a zero endpoint.
C19_AsClaimed ==
  (/\ last_op.name = "get"
   /\ last_op.arg = "cv_sweep_voltages"
   /\ outcome.received # <<>>
   /\ outcome.received[1].fields[2].val \in {2, 4}) =>
    LET s == outcome.received[1].fields[3].val
        e == outcome.received[1].fields[4].val
    IN /\ (s # 0 /\ e # 0 /\ ((s < 0) # (e < 0))) =>
            outcome.status = "AssertionError"
       /\ (s = 0 /\ e # 0) =>
            /\ outcome.status = "ok"
            /\ outcome.value[1] \in {-5, 5}
            /\ outcome.value[2] = e
       /\ (s # 0 /\ e = 0) =>
            /\ outcome.status = "ok"
            /\ outcome.value[1] = s
            /\ outcome.value[2] \in {-5, 5}

\* ------------------------------------------------------------------------
\* Properties of the ranging settings
\* ------------------------------------------------------------------------
\* C20 as claimed: whenever the stored ranging mode is AUTO the stored
\* measurement range is None, and every RC command sent with ranging mode
\* AUTO carries no measurement range.
C20_AsClaimed ==
  /\ ranging_mode = RangingMode_AUTO =>
       measurement_range_for_non_auto = None
  /\ \A i \in 1..Len(sent) :
       (sent[i].mn = "RC" /\ sent[i].args[2] = RangingMode_AUTO) =>
         sent[i].args[3] = None

\* ------------------------------------------------------------------------
\* Properties of the measurement mode
\* ------------------------------------------------------------------------
\* the positions of the MM commands among cmds
MMSent(cmds) == {i \in 1..Len(cmds) : cmds[i].mn = "MM"}

\* the mode of the latest MM command among cmds
LastMode(cmds) ==
  cmds[CHOOSE i \in MMSent(cmds) : \A j \in MMSent(cmds) : j <= i].args[1]

\* C21 as claimed: the cache of measurement_mode follows the MM commands:
\* an operation that sends MM leaves in the cache the mode of its latest MM
\* command, and an operation that sends none leaves the cache as it was; so a
\* capacitance read, which sends MM with SPOT_C, leaves SPOT_C cached.
C21_AsClaimed ==
  [][ops' = ops + 1 =>
       IF MMSent(sent') # {}
         THEN cache'["measurement_mode"] = LastMode(sent')
         ELSE cache'["measurement_mode"] = cache["measurement_mode"]]_vars

\* ------------------------------------------------------------------------
\* Properties of the readiness flag
\* ------------------------------------------------------------------------
\* C22: once setup_fnc_already_run is True it is True after every later
\* operation, a setup_staircase_cv call whose error query reports an error
\* and a set of a sweep parameter included, and a read of run_sweep on the
\* ready module does not end in the not-ready Warning.
C22_NeverReset ==
  [][setup_fnc_already_run =>
       /\ setup_fnc_already_run'
       /\ RunSweepStep => outcome'.status # "Warning"]_vars

\* a ready module went through a setup_staircase_cv call whose error query
\* reported an error, and is still ready
C22_Witness ==
  /\ setup_fnc_already_run
  /\ ops = 2
  /\ last_op.name = "setup_staircase_cv"
  /\ err_reply # NoError
  /\ CountOf("ERRX?", sent) = 1

====
